---- MODULE Spec2Model ----
(***************************************************************************)
(* actix-xsrf: the request lifecycle of the ProtectXSRF middleware.        *)
(*                                                                         *)
(* A request enters ProtectXSRFTransform::call, which attaches an empty    *)
(* ReqExt to the request's extensions and hands the request to the wrapped *)
(* service.  The handler may call HttpRequest::xsrf_token any number of    *)
(* times.  When the wrapped future completes, the async block of call      *)
(* either passes the error through or reads the ReqExt and appends a       *)
(* Set-Cookie header when write_cookie is set.                             *)
(*                                                                         *)
(* The xsrf crate (CookieToken, RequestToken) is an external dependency:   *)
(* a secret is a number 1..NumSecrets, its string form is that many "A"    *)
(* characters, CookieToken::new() and gen_req_token draw their randomness  *)
(* from Secrets and Pads.                                                  *)
(***************************************************************************)
EXTENDS Integers, Sequences, FiniteSets

\* ---------------------------------------------------------------- bounds
MaxCalls == 3
NumSecrets == 2

Requests == {"r1", "r2"}
Secrets == 1..NumSecrets
Pads == {"p", "q"}
Errors == {"e1", "e2"}

\* ---------------------------------------------------------------- Option
None == <<>>
Some(v) == <<v>>
is_some(o) == o # <<>>
unwrap(o) == o[1]

\* ------------------------------------------------- xsrf crate (external)
\* CookieToken::to_string
to_string(s) == [i \in 1..s |-> "A"]

\* TryFrom<&str> for CookieToken: fails on a malformed value
ParseSecret(str) ==
    IF Len(str) \in Secrets /\ \A i \in 1..Len(str) : str[i] = "A"
    THEN [ok |-> TRUE, val |-> Len(str)]
    ELSE [ok |-> FALSE, val |-> 0]

\* CookieToken::gen_req_token: the token carries a random pad
gen_req_token(ct, pad) == [secret |-> ct, pad |-> pad]

\* ------------------------------------------------------- configuration
MIDDLEWARE_MISSING == "xsrf_token used without corresponding middleware"
SET_COOKIE == "set-cookie"

\* ProtectXSRF { cookie_name }
config == [cookie_name |-> "x"]

CookieNames == {"x", "y"}
Malformed == {<<>>, <<"!">>}
CookieValues == {to_string(s) : s \in Secrets} \cup Malformed

\* The cookies a request presents: name -> Option<value>.  A cookie under
\* another name appears only on requests with none under the configured name.
Jars ==
    {j \in [CookieNames -> {None} \cup {Some(v) : v \in CookieValues}] :
        \/ j["y"] = None
        \/ j["x"] = None /\ j["y"] = Some(to_string(1))}

\* HttpRequest::cookie(name)
cookie(j, name) == IF name \in DOMAIN j THEN j[name] ELSE None

\* CookieBuilder::new(name, value).finish().to_string()
CookieToString(name, value) == <<name, "=">> \o value

\* What the wrapped service can answer with
Responses ==
    { [status |-> "200", body |-> "ok", headers |-> <<>>],
      [status |-> "404", body |-> "nf",
       headers |-> <<[name |-> SET_COOKIE, value |-> <<"y", "=", "A">>]>>] }

\* What the wrapped future can complete with: Ok(res) or Err(err)
Results ==
    {<<"Ok", res>> : res \in Responses} \cup {<<"Err", err>> : err \in Errors}

\* ------------------------------------------------------------- state
VARIABLES
    pc,          \* where each request is in its lifecycle
    jar,         \* the cookies each request presents
    ext,         \* Option<ReqExt> in each request's extensions
    returned,    \* the tokens xsrf_token has returned, in call order
    derivations, \* how many times gen_req_token ran for the request
    minted,      \* the secrets CookieToken::new() produced for the request
    inner,       \* Option: what the wrapped service completed with
    outcome,     \* Option: what the future of call completed with
    log,         \* the request's events: "pre" (ReqExt inserted), "acc"
                 \* (xsrf_token called), "post" (cookie logic ran)
    resolutions, \* how many times the cookie was looked up and a secret resolved
    borrows      \* the borrows of the request's extensions taken and released
                 \* by the last step on the request, in order

vars ==
    <<pc, jar, ext, returned, derivations, minted, inner, outcome, log,
      resolutions, borrows>>

\* ------------------------------------------- RefCell of req.extensions()
\* Events: "s+" / "s-" a shared borrow (extensions()) is taken / released,
\*         "m+" / "m-" a mutable borrow (extensions_mut()) is taken / released.
RECURSIVE RefCellRun(_, _, _, _)
\* RefCell: borrow_mut() needs no outstanding borrow, borrow() no mutable one
RefCellRun(trace, i, shared, mutable) ==
    IF i > Len(trace) THEN TRUE
    ELSE CASE trace[i] = "s+" -> ~mutable /\ RefCellRun(trace, i + 1, shared + 1, mutable)
           [] trace[i] = "s-" -> RefCellRun(trace, i + 1, shared - 1, mutable)
           [] trace[i] = "m+" -> ~mutable /\ shared = 0 /\ RefCellRun(trace, i + 1, shared, TRUE)
           [] OTHER -> RefCellRun(trace, i + 1, shared, FALSE)

\* No borrow() or borrow_mut() of the trace panics
BorrowsOk(trace) == RefCellRun(trace, 1, 0, FALSE)

\* the block around ext.insert in call
pre_hook_borrows == <<"m+", "m-">>

\* get_existing_request_token: ext lives to the end of the function
get_existing_request_token_borrows == <<"s+", "s-">>

\* HttpRequest::cookie -> cookies(): looks for the parsed cookies, may insert
\* them, then reads them; the Cookie returned is owned
cookie_borrows == <<"s+", "s-", "m+", "m-", "s+", "s-">>

\* Variant: ext of the first lines lives to the end of the function
ensure_cookie_token_borrows_unscoped(re) ==
    IF is_some(re.cookie_token)
    THEN <<"s+", "s-">>
    ELSE <<"s+">> \o cookie_borrows \o <<"m+", "m-", "s-">>

\* ensure_cookie_token: ext of the first block is released at the return or at
\* the end of the block; ext of extensions_mut lives to the end
ensure_cookie_token_borrows(re) ==
    IF is_some(re.cookie_token)
    THEN <<"s+", "s-">>
    ELSE <<"s+", "s-">> \o cookie_borrows \o <<"m+", "m-">>

\* Variant: the cookie name is written into the state as a literal
EmptyReqExtHardcoded(name) ==
    [cookie_name |-> "y", cookie_token |-> None,
     request_token |-> None, write_cookie |-> FALSE]

\* ReqExt as call inserts it
EmptyReqExt(name) ==
    [cookie_name |-> name, cookie_token |-> None,
     request_token |-> None, write_cookie |-> FALSE]

\* Variant: one ReqExt slot for the whole transform instead of one per request
InsertReqExtShared(e, r, name) == [q \in Requests |-> Some(EmptyReqExt(name))]

\* Variant: the request reaches the wrapped service before anything is inserted
InsertReqExtNothing(e, r, name) == e

\* req.extensions_mut().insert(ReqExt { .. }) on request r
InsertReqExt(e, r, name) == [e EXCEPT ![r] = Some(EmptyReqExt(name))]

\* Variant: a missing ReqExt is silently replaced by a default one
get_req_ext_or_default(e) ==
    IF is_some(e) THEN e
    ELSE Some([cookie_name |-> config.cookie_name, cookie_token |-> None,
               request_token |-> None, write_cookie |-> FALSE])

\* ext.get::<ReqExt>()
get_req_ext(e) == e

\* Variant: the cached request token is never found
get_existing_none(re) == None

\* get_existing_request_token on an attached ReqExt
get_existing_request_token(re) == re.request_token

\* Variant: the None arm mints a secret but leaves write_cookie false
ensure_cookie_token_absent_nowrite(re, j, fresh) ==
    IF is_some(re.cookie_token)
    THEN [re |-> re, minted |-> FALSE, resolved |-> FALSE]
    ELSE LET c == cookie(j, re.cookie_name)
             parsed == IF is_some(c) THEN ParseSecret(unwrap(c))
                       ELSE [ok |-> FALSE, val |-> 0]
             write_cookie == is_some(c) /\ ~parsed.ok
             ct == IF parsed.ok THEN parsed.val ELSE fresh
         IN [re |-> [re EXCEPT !.cookie_token = Some(ct),
                               !.write_cookie = IF write_cookie THEN TRUE ELSE @],
             minted |-> ~parsed.ok, resolved |-> TRUE]

\* Variant: the unwrap_or_else closure mints a secret but leaves write_cookie false
ensure_cookie_token_malformed_nowrite(re, j, fresh) ==
    IF is_some(re.cookie_token)
    THEN [re |-> re, minted |-> FALSE, resolved |-> FALSE]
    ELSE LET c == cookie(j, re.cookie_name)
             parsed == IF is_some(c) THEN ParseSecret(unwrap(c))
                       ELSE [ok |-> FALSE, val |-> 0]
             write_cookie == ~is_some(c)
             ct == IF parsed.ok THEN parsed.val ELSE fresh
         IN [re |-> [re EXCEPT !.cookie_token = Some(ct),
                               !.write_cookie = IF write_cookie THEN TRUE ELSE @],
             minted |-> ~parsed.ok, resolved |-> TRUE]

\* Variant: the presented cookie is ignored and a secret is always minted
ensure_cookie_token_always_mint(re, j, fresh) ==
    IF is_some(re.cookie_token)
    THEN [re |-> re, minted |-> FALSE, resolved |-> FALSE]
    ELSE [re |-> [re EXCEPT !.cookie_token = Some(fresh), !.write_cookie = TRUE],
          minted |-> TRUE, resolved |-> TRUE]

\* Variant: write_cookie is set on every resolution, also of a parsed cookie
ensure_cookie_token_always_write(re, j, fresh) ==
    IF is_some(re.cookie_token)
    THEN [re |-> re, minted |-> FALSE, resolved |-> FALSE]
    ELSE LET c == cookie(j, re.cookie_name)
             parsed == IF is_some(c) THEN ParseSecret(unwrap(c))
                       ELSE [ok |-> FALSE, val |-> 0]
             ct == IF parsed.ok THEN parsed.val ELSE fresh
         IN [re |-> [re EXCEPT !.cookie_token = Some(ct), !.write_cookie = TRUE],
             minted |-> ~parsed.ok, resolved |-> TRUE]

\* Variant: write_cookie is recorded but the resolved secret is not stored
ensure_cookie_token_no_store(re, j, fresh) ==
    IF is_some(re.cookie_token)
    THEN [re |-> re, minted |-> FALSE, resolved |-> FALSE]
    ELSE LET c == cookie(j, re.cookie_name)
             parsed == IF is_some(c) THEN ParseSecret(unwrap(c))
                       ELSE [ok |-> FALSE, val |-> 0]
         IN [re |-> [re EXCEPT !.write_cookie = IF ~parsed.ok THEN TRUE ELSE @],
             minted |-> ~parsed.ok, resolved |-> TRUE]

\* ensure_cookie_token on an attached ReqExt; fresh is what CookieToken::new()
\* would return.  Yields the new ReqExt, whether a secret was minted and
\* whether the cookie was looked up and a secret resolved.
ensure_cookie_token(re, j, fresh) ==
    IF is_some(re.cookie_token)
    THEN [re |-> re, minted |-> FALSE, resolved |-> FALSE]
    ELSE LET c == cookie(j, re.cookie_name)
             parsed == IF is_some(c) THEN ParseSecret(unwrap(c))
                       ELSE [ok |-> FALSE, val |-> 0]
             write_cookie == ~parsed.ok
             ct == IF parsed.ok THEN parsed.val ELSE fresh
         IN [re |-> [re EXCEPT !.cookie_token = Some(ct),
                               !.write_cookie = IF write_cookie THEN TRUE ELSE @],
             minted |-> write_cookie, resolved |-> TRUE]

\* Variant: neither cache is consulted, every call resolves the secret from
\* the cookie again and derives a new token
xsrf_token_no_cache(re, j, fresh, pad) ==
    LET c == cookie(j, re.cookie_name)
        parsed == IF is_some(c) THEN ParseSecret(unwrap(c))
                  ELSE [ok |-> FALSE, val |-> 0]
        ct == IF parsed.ok THEN parsed.val ELSE fresh
        rt == gen_req_token(ct, pad)
    IN [re |-> [re EXCEPT !.cookie_token = Some(ct),
                          !.request_token = Some(rt),
                          !.write_cookie = IF parsed.ok THEN @ ELSE TRUE],
        ret |-> Some(rt), minted |-> ~parsed.ok, resolved |-> TRUE,
        derived |-> TRUE]

\* Variant: the request token is derived from a new CookieToken, not from the
\* stored one
xsrf_token_derive_fresh(re, j, fresh, pad) ==
    LET existing == get_existing_request_token(re) IN
    IF is_some(existing)
    THEN [re |-> re, ret |-> existing, minted |-> FALSE, resolved |-> FALSE,
          derived |-> FALSE]
    ELSE LET ens == ensure_cookie_token(re, j, fresh)
             rt == gen_req_token(fresh, pad)
         IN [re |-> [ens.re EXCEPT !.request_token = Some(rt)],
             ret |-> Some(rt), minted |-> ens.minted,
             resolved |-> ens.resolved, derived |-> TRUE]

\* Variant: the derived token is returned but not stored
xsrf_token_no_store(re, j, fresh, pad) ==
    LET ens == ensure_cookie_token(re, j, fresh)
        rt == gen_req_token(unwrap(ens.re.cookie_token), pad)
    IN [re |-> ens.re, ret |-> Some(rt), minted |-> ens.minted,
        resolved |-> ens.resolved, derived |-> TRUE]

\* xsrf_token on an attached ReqExt.  ret is the token returned, or None when
\* re.cookie_token.as_ref().unwrap() panics.
xsrf_token(re, j, fresh, pad) ==
    LET existing == get_existing_request_token(re) IN
    IF is_some(existing)
    THEN [re |-> re, ret |-> existing, minted |-> FALSE, resolved |-> FALSE,
          derived |-> FALSE]
    ELSE LET ens == ensure_cookie_token(re, j, fresh) IN
         IF ~is_some(ens.re.cookie_token)
         THEN [re |-> ens.re, ret |-> None, minted |-> ens.minted,
               resolved |-> ens.resolved, derived |-> FALSE]
         ELSE LET rt == gen_req_token(unwrap(ens.re.cookie_token), pad)
              IN [re |-> [ens.re EXCEPT !.request_token = Some(rt)],
                  ret |-> Some(rt), minted |-> ens.minted,
                  resolved |-> ens.resolved, derived |-> TRUE]

\* xsrf_token: the borrows of the functions it calls, then its own
\* extensions_mut, which lives to the return
xsrf_token_borrows(re) ==
    get_existing_request_token_borrows \o
    (IF is_some(get_existing_request_token(re))
     THEN <<>>
     ELSE ensure_cookie_token_borrows(re) \o <<"m+", "m-">>)

\* the block of the async block: ext is dropped before res.headers_mut(), or
\* at the end of the block
post_hook_borrows(re) == <<"s+", "s-">>

\* Variant: the cookie is written whenever a secret is known, or a default one
post_hook_always(re, res) ==
    [res EXCEPT !.headers =
        Append(@, [name |-> SET_COOKIE,
                   value |-> CookieToString(re.cookie_name,
                                 IF is_some(re.cookie_token)
                                 THEN to_string(unwrap(re.cookie_token))
                                 ELSE to_string(1))])]

\* Variant: headers_mut().insert, which replaces the Set-Cookie headers the
\* response already has
post_hook_insert(re, res) ==
    IF re.write_cookie
    THEN [res EXCEPT !.headers =
            Append(SelectSeq(@, LAMBDA h : h.name # SET_COOKIE),
                   [name |-> SET_COOKIE,
                    value |-> CookieToString(re.cookie_name,
                                  to_string(unwrap(re.cookie_token)))])]
    ELSE res

\* Variant: the cookie is appended twice
post_hook_double(re, res) ==
    IF re.write_cookie
    THEN LET h == [name |-> SET_COOKIE,
                   value |-> CookieToString(re.cookie_name,
                                 to_string(unwrap(re.cookie_token)))]
         IN [res EXCEPT !.headers = Append(Append(@, h), h)]
    ELSE res

\* The cookie logic of the async block on Ok(res)
post_hook(re, res) ==
    IF re.write_cookie
    THEN [res EXCEPT !.headers =
            Append(@, [name |-> SET_COOKIE,
                       value |-> CookieToString(re.cookie_name,
                                     to_string(unwrap(re.cookie_token)))])]
    ELSE res

\* Variant: an error of the wrapped stage is replaced by the block's own error
resume_wrap_err(e, result) ==
    IF result[1] = "Err"
    THEN <<"Err", "internal">>
    ELSE IF ~is_some(get_req_ext(e))
         THEN <<"Panic", "unwrap ReqExt">>
         ELSE LET re == unwrap(get_req_ext(e)) IN
              IF ~BorrowsOk(post_hook_borrows(re))
              THEN <<"Panic", "already borrowed">>
              ELSE IF re.write_cookie /\ ~is_some(re.cookie_token)
                   THEN <<"Panic", "unwrap cookie_token">>
                   ELSE <<"Ok", post_hook(re, result[2])>>

\* The async block of call, once fut.await has yielded result: the error is
\* returned as it is; on Ok the ReqExt is read (ext.get::<ReqExt>().unwrap())
\* and, when write_cookie is set, cookie_token.as_ref().unwrap() is written
resume(e, result) ==
    IF result[1] = "Err"
    THEN result
    ELSE IF ~is_some(get_req_ext(e))
         THEN <<"Panic", "unwrap ReqExt">>
         ELSE LET re == unwrap(get_req_ext(e)) IN
              IF ~BorrowsOk(post_hook_borrows(re))
              THEN <<"Panic", "already borrowed">>
              ELSE IF re.write_cookie /\ ~is_some(re.cookie_token)
                   THEN <<"Panic", "unwrap cookie_token">>
                   ELSE <<"Ok", post_hook(re, result[2])>>

\* ------------------------------------------------------------- actions
Init ==
    /\ pc = [r \in Requests |-> "new"]
    /\ jar \in [Requests -> Jars]
    /\ ext = [r \in Requests |-> None]
    /\ returned = [r \in Requests |-> <<>>]
    /\ derivations = [r \in Requests |-> 0]
    /\ minted = [r \in Requests |-> <<>>]
    /\ inner = [r \in Requests |-> None]
    /\ outcome = [r \in Requests |-> None]
    /\ log = [r \in Requests |-> <<>>]
    /\ resolutions = [r \in Requests |-> 0]
    /\ borrows = [r \in Requests |-> <<>>]

\* ProtectXSRFTransform::call up to the creation of the future: the ReqExt is
\* inserted and the request is handed to the wrapped service
Call(r) ==
    /\ pc[r] = "new"
    /\ borrows' = [borrows EXCEPT ![r] = pre_hook_borrows]
    /\ log' = [log EXCEPT ![r] = Append(@, "pre")]
    /\ IF BorrowsOk(pre_hook_borrows)
       THEN /\ ext' = InsertReqExt(ext, r, config.cookie_name)
            /\ pc' = [pc EXCEPT ![r] = "handling"]
            /\ UNCHANGED outcome
       ELSE /\ pc' = [pc EXCEPT ![r] = "panicked"]
            /\ outcome' = [outcome EXCEPT ![r] = Some(<<"Panic", "already borrowed">>)]
            /\ UNCHANGED ext
    /\ UNCHANGED <<jar, returned, derivations, minted, inner, resolutions>>

\* A handler that is reached without the middleware
BareDispatch(r) ==
    /\ pc[r] = "new"
    /\ pc' = [pc EXCEPT ![r] = "bare"]
    /\ UNCHANGED <<jar, ext, returned, derivations, minted, inner, outcome, log,
                   resolutions, borrows>>

\* The handler calls req.xsrf_token()
XsrfToken(r) ==
    /\ pc[r] \in {"handling", "bare"}
    /\ Len(SelectSeq(log[r], LAMBDA ev : ev = "acc")) < MaxCalls
    /\ log' = [log EXCEPT ![r] = Append(@, "acc")]
    /\ IF ~is_some(get_req_ext(ext[r]))
       THEN \* expect(MIDDLEWARE_MISSING) panics
            /\ pc' = [pc EXCEPT ![r] = "panicked"]
            /\ outcome' = [outcome EXCEPT ![r] = Some(<<"Panic", MIDDLEWARE_MISSING>>)]
            /\ borrows' = [borrows EXCEPT ![r] = get_existing_request_token_borrows]
            /\ UNCHANGED <<jar, ext, returned, derivations, minted, inner, resolutions>>
       ELSE LET re == unwrap(get_req_ext(ext[r])) IN
            /\ borrows' = [borrows EXCEPT ![r] = xsrf_token_borrows(re)]
            /\ IF ~BorrowsOk(xsrf_token_borrows(re))
               THEN \* extensions_mut() panics: already borrowed
                    /\ pc' = [pc EXCEPT ![r] = "panicked"]
                    /\ outcome' = [outcome EXCEPT ![r] =
                                      Some(<<"Panic", "already borrowed">>)]
                    /\ UNCHANGED <<jar, ext, returned, derivations, minted, inner,
                                   resolutions>>
               ELSE \E fresh \in Secrets, pad \in Pads :
                      LET out == xsrf_token(re, jar[r], fresh, pad) IN
                      /\ ext' = [ext EXCEPT ![r] = Some(out.re)]
                      /\ derivations' = [derivations EXCEPT ![r] =
                                            IF out.derived THEN @ + 1 ELSE @]
                      /\ minted' = [minted EXCEPT ![r] =
                                       IF out.minted THEN Append(@, fresh) ELSE @]
                      /\ resolutions' = [resolutions EXCEPT ![r] =
                                            IF out.resolved THEN @ + 1 ELSE @]
                      /\ IF is_some(out.ret)
                         THEN /\ returned' = [returned EXCEPT ![r] =
                                                Append(@, unwrap(out.ret))]
                              /\ UNCHANGED <<pc, outcome>>
                         ELSE /\ pc' = [pc EXCEPT ![r] = "panicked"]
                              /\ outcome' = [outcome EXCEPT ![r] =
                                                Some(<<"Panic", "unwrap cookie_token">>)]
                              /\ UNCHANGED returned
                      /\ UNCHANGED <<jar, inner>>

\* The wrapped future completes and the async block of call runs to its end
Resume(r) ==
    /\ pc[r] = "handling"
    /\ \E result \in Results :
         LET out == resume(ext[r], result) IN
         /\ inner' = [inner EXCEPT ![r] = Some(result)]
         /\ outcome' = [outcome EXCEPT ![r] = Some(out)]
         /\ pc' = [pc EXCEPT ![r] = CASE out[1] = "Ok" -> "done_ok"
                                      [] out[1] = "Err" -> "done_err"
                                      [] OTHER -> "panicked"]
         /\ log' = [log EXCEPT ![r] = IF result[1] = "Ok" THEN Append(@, "post") ELSE @]
         /\ borrows' = [borrows EXCEPT ![r] =
                          IF result[1] = "Ok" /\ is_some(get_req_ext(ext[r]))
                          THEN post_hook_borrows(unwrap(get_req_ext(ext[r])))
                          ELSE IF result[1] = "Ok" THEN <<"s+", "s-">> ELSE <<>>]
    /\ UNCHANGED <<jar, ext, returned, derivations, minted, resolutions>>

\* Variant: the cookie logic also runs when the future is dropped
CancelEmits(r) ==
    /\ pc[r] = "handling"
    /\ pc' = [pc EXCEPT ![r] = "cancelled"]
    /\ outcome' = [outcome EXCEPT ![r] =
                      Some(<<"Ok", post_hook(unwrap(ext[r]),
                                     [status |-> "200", body |-> "", headers |-> <<>>])>>)]
    /\ log' = [log EXCEPT ![r] = Append(@, "post")]
    /\ ext' = [ext EXCEPT ![r] = None]
    /\ UNCHANGED <<jar, returned, derivations, minted, inner, resolutions, borrows>>

\* The future of call is dropped while the wrapped stage is pending: the
\* request and its extensions go with it
Cancel(r) ==
    /\ pc[r] = "handling"
    /\ pc' = [pc EXCEPT ![r] = "cancelled"]
    /\ ext' = [ext EXCEPT ![r] = None]
    /\ UNCHANGED <<jar, returned, derivations, minted, inner, outcome, log,
                   resolutions, borrows>>

Next ==
    \E r \in Requests :
        \/ Call(r)
        \/ BareDispatch(r)
        \/ XsrfToken(r)
        \/ Resume(r)
        \/ Cancel(r)

Spec == Init /\ [][Next]_vars

\* ------------------------------------------------------ claim vocabulary
\* The cookie the request presents under the configured name
OwnCookie(r) == jar[r][config.cookie_name]
PresentsNone(r) == OwnCookie(r) = None
PresentsValid(r) == OwnCookie(r) # None /\ ParseSecret(OwnCookie(r)[1]).ok
PresentsMalformed(r) == OwnCookie(r) # None /\ ~ParseSecret(OwnCookie(r)[1]).ok

\* The request was handed to the wrapped service by call
ThroughCall(r) == log[r] # <<>> /\ log[r][1] = "pre"
AccCount(r) == Len(SelectSeq(log[r], LAMBDA ev : ev = "acc"))

\* The headers the async block added to the response of the wrapped service
Appended(r) ==
    LET before == outcome[r][1][2].headers
        given == inner[r][1][2].headers
    IN SubSeq(before, Len(given) + 1, Len(before))

IsSetCookieFor(h, name) ==
    /\ h.name = SET_COOKIE
    /\ Len(h.value) >= 2
    /\ h.value[1] = name
    /\ h.value[2] = "="

\* The Set-Cookie header that carries secret s under the configured name
FreshCookieHeader(s) ==
    [name |-> SET_COOKIE, value |-> <<config.cookie_name, "=">> \o [i \in 1..s |-> "A"]]

\* The part of a cookie directive after "<name>="
CookieValuePart(h) == SubSeq(h.value, 3, Len(h.value))

\* ---------------------------------------------------------------- claims

\* C1: within one request, all xsrf_token calls return the same token value
\* and gen_req_token runs at most once.
C1_Idempotent ==
    \A r \in Requests :
        /\ \A i, k \in 1..Len(returned[r]) : returned[r][i] = returned[r][k]
        /\ derivations[r] <= 1
        /\ returned[r] # <<>> => derivations[r] = 1

C1_Witness ==
    \E r \in Requests : Len(returned[r]) >= 3 /\ derivations[r] = 1

\* C2: a request that completes successfully without any xsrf_token call gets
\* no Set-Cookie header for the configured name from the post-hook, whatever
\* cookie it presented.
C2_NoCookieUnlessUsed ==
    \A r \in Requests :
        (pc[r] = "done_ok" /\ AccCount(r) = 0) =>
            /\ \A i \in 1..Len(Appended(r)) :
                   ~IsSetCookieFor(Appended(r)[i], config.cookie_name)
            /\ outcome[r] = inner[r]

C2_Witness ==
    /\ \E r \in Requests : pc[r] = "done_ok" /\ AccCount(r) = 0 /\ PresentsMalformed(r)
    /\ \E r \in Requests : pc[r] = "done_ok" /\ AccCount(r) = 0 /\ PresentsValid(r)

\* C3: a request with no cookie under the configured name that calls
\* xsrf_token gets, on success, the header "<cookie_name>=<secret>" for the
\* secret minted in this request, and its token was derived from that secret.
C3_FreshCookieOnFirstUse ==
    \A r \in Requests :
        (pc[r] = "done_ok" /\ PresentsNone(r) /\ returned[r] # <<>>) =>
            /\ Len(minted[r]) = 1
            /\ Appended(r) = <<FreshCookieHeader(minted[r][1])>>
            /\ ParseSecret(CookieValuePart(Appended(r)[1])) =
                   [ok |-> TRUE, val |-> minted[r][1]]
            /\ \A i \in 1..Len(returned[r]) : returned[r][i].secret = minted[r][1]

C3_Witness ==
    \E r \in Requests :
        /\ pc[r] = "done_ok" /\ PresentsNone(r) /\ returned[r] # <<>>
        /\ jar[r]["y"] # None
        /\ minted[r] = <<2>>

\* C4: a request presenting a valid secret under the configured name keeps
\* write_cookie false over any number of xsrf_token calls, mints nothing,
\* gets no Set-Cookie header, and its token is derived from the presented secret.
C4_CookieReuse ==
    \A r \in Requests :
        PresentsValid(r) =>
            /\ minted[r] = <<>>
            /\ ext[r] # None => ~ext[r][1].write_cookie
            /\ \A i \in 1..Len(returned[r]) :
                   returned[r][i].secret = ParseSecret(OwnCookie(r)[1]).val
            /\ pc[r] = "done_ok" =>
                   /\ Appended(r) = <<>>
                   /\ \A i \in 1..Len(outcome[r][1][2].headers) :
                          ~IsSetCookieFor(outcome[r][1][2].headers[i], config.cookie_name)

C4_Witness ==
    \E r \in Requests :
        /\ pc[r] = "done_ok" /\ PresentsValid(r) /\ Len(returned[r]) >= 2
        /\ returned[r][1].secret = 2

\* C5: a request presenting an unparsable value under the configured name
\* still gets a token from xsrf_token; a secret is minted, write_cookie
\* becomes true and the successful response carries the fresh Set-Cookie.
C5_MalformedCookieTolerance ==
    \A r \in Requests :
        (PresentsMalformed(r) /\ ThroughCall(r) /\ AccCount(r) > 0) =>
            /\ pc[r] # "panicked"
            /\ Len(returned[r]) = AccCount(r)
            /\ Len(minted[r]) = 1
            /\ \A i \in 1..Len(returned[r]) : returned[r][i].secret = minted[r][1]
            /\ ext[r] # None =>
                   /\ ext[r][1].write_cookie
                   /\ ext[r][1].cookie_token = <<minted[r][1]>>
            /\ pc[r] = "done_ok" =>
                   Appended(r) = <<FreshCookieHeader(minted[r][1])>>

C5_Witness ==
    \E r \in Requests :
        /\ pc[r] = "done_ok" /\ PresentsMalformed(r) /\ Len(returned[r]) >= 1
        /\ inner[r][1][2].headers # <<>>

\* The ReqExt a request must hold, computed from nothing but its own cookie
\* and the tokens its own xsrf_token calls returned
OwnReqExt(r) ==
    IF returned[r] = <<>>
    THEN [cookie_name |-> config.cookie_name, cookie_token |-> <<>>,
          request_token |-> <<>>, write_cookie |-> FALSE]
    ELSE [cookie_name |-> config.cookie_name,
          cookie_token |-> <<returned[r][1].secret>>,
          request_token |-> <<returned[r][1]>>,
          write_cookie |-> ~PresentsValid(r)]

\* The part of the state that belongs to request r
Own(r) ==
    <<pc[r], jar[r], ext[r], returned[r], derivations[r], minted[r],
      inner[r], outcome[r], log[r], resolutions[r], borrows[r]>>

\* C6: under every interleaving of two requests, each request's ReqExt and
\* its Set-Cookie decision are determined by its own cookie and its own
\* xsrf_token calls, and a step of one request changes nothing of the other.
C6_Isolation ==
    /\ [](\A r \in Requests :
            /\ ext[r] # None => ext[r][1] = OwnReqExt(r)
            /\ pc[r] = "done_ok" =>
                   Appended(r) = IF returned[r] # <<>> /\ ~PresentsValid(r)
                                 THEN <<FreshCookieHeader(returned[r][1].secret)>>
                                 ELSE <<>>)
    /\ [][\E r \in Requests : \A q \in Requests \ {r} : Own(q)' = Own(q)]_vars

\* Both requests are in flight, one has minted a secret and the other, which
\* started later, has not called xsrf_token; or the unused one has completed
\* while the minting one is still in flight.
C6_Witness ==
    \E r, q \in Requests :
        /\ r # q
        /\ pc[r] = "done_ok" /\ AccCount(r) = 0 /\ Appended(r) = <<>>
        /\ pc[q] = "handling" /\ ext[q] # None /\ ext[q][1].write_cookie

\* C7: xsrf_token on a request that carries no ReqExt panics with
\* MIDDLEWARE_MISSING: no token is returned and no state is attached.
C7_MisusePanics ==
    \A r \in Requests :
        (~ThroughCall(r) /\ AccCount(r) > 0) =>
            /\ pc[r] = "panicked"
            /\ outcome[r] = <<(<<"Panic", MIDDLEWARE_MISSING>>)>>
            /\ returned[r] = <<>>
            /\ derivations[r] = 0
            /\ minted[r] = <<>>
            /\ ext[r] = None

C7_Witness ==
    \E r \in Requests : ~ThroughCall(r) /\ AccCount(r) = 1 /\ pc[r] = "panicked"

\* C8: when the wrapped stage completes with an error, the future of call
\* completes with that same error and the cookie logic does not run, also
\* when write_cookie is true.
C8_ErrorPassthrough ==
    \A r \in Requests :
        /\ pc[r] = "done_err" =>
               /\ outcome[r] = inner[r]
               /\ outcome[r][1][1] = "Err"
               /\ outcome[r][1][2] \in Errors
               /\ \A i \in 1..Len(log[r]) : log[r][i] # "post"
        /\ (inner[r] # None /\ inner[r][1][1] = "Err") => pc[r] = "done_err"

C8_Witness ==
    \E r \in Requests :
        /\ pc[r] = "done_err"
        /\ ext[r] # None /\ ext[r][1].write_cookie
        /\ outcome[r] = <<(<<"Err", "e2">>)>>

\* C9: for a request handled through call, the insertion of the ReqExt comes
\* before every xsrf_token call and every xsrf_token call comes before the
\* post-hook's read; nothing follows the post-hook.
C9_LifecycleOrder ==
    \A r \in Requests :
        pc[r] \notin {"new", "bare"} /\ (pc[r] = "panicked" => ThroughCall(r)) =>
            /\ pc[r] # "panicked"
            /\ log[r][1] = "pre"
            /\ \A i \in 2..Len(log[r]) : log[r][i] # "pre"
            /\ \A i \in 1..Len(log[r]) : log[r][i] = "post" => i = Len(log[r])
            /\ Len(returned[r]) = AccCount(r)
            /\ pc[r] = "done_ok" <=> log[r][Len(log[r])] = "post"

C9_Witness ==
    \E r \in Requests : log[r] = <<"pre", "acc", "acc", "post">>

\* C10: the ReqExt is attached exactly once per request, by call before the
\* wrapped stage runs, with the configured cookie name and everything else
\* absent or false; a populated ReqExt is never replaced by an empty one.
C10_EmptyStateOnce ==
    [][\A r \in Requests :
         /\ (ext[r] = None /\ ext'[r] # None) =>
                /\ pc[r] = "new" /\ pc'[r] = "handling"
                /\ ext'[r][1] = [cookie_name |-> config.cookie_name, cookie_token |-> <<>>,
                                 request_token |-> <<>>, write_cookie |-> FALSE]
         /\ (pc[r] = "new" /\ pc'[r] = "handling") => (ext[r] = None /\ ext'[r] # None)
         /\ (ext[r] # None /\ ext'[r] # None) =>
                /\ ext'[r][1].cookie_name = ext[r][1].cookie_name
                /\ ext[r][1].cookie_token # <<>> => ext'[r][1].cookie_token # <<>>
                /\ ext[r][1].request_token # <<>> => ext'[r][1].request_token # <<>>
         /\ (ext[r] # None /\ ext'[r] = None) => pc'[r] = "cancelled"
         /\ Len(SelectSeq(log'[r], LAMBDA ev : ev = "pre")) <= 1]_vars

C10_Witness ==
    \E r, q \in Requests :
        /\ r # q
        /\ pc[r] = "handling" /\ ext[r] # None /\ ext[r][1].request_token # <<>>
        /\ pc[q] = "handling" /\ ext[q] # None /\ ext[q][1].request_token = <<>>
        /\ returned[q] = <<>>

\* C11: once cookie_token is set, no later xsrf_token call replaces it, and
\* the cookie is looked up and a secret resolved at most once per request.
C11_WriteOnceSecret ==
    /\ [](\A r \in Requests :
            /\ resolutions[r] <= 1
            /\ Len(minted[r]) <= resolutions[r]
            /\ (ext[r] # None /\ ext[r][1].cookie_token # <<>>) => resolutions[r] = 1)
    /\ [][\A r \in Requests :
            (ext[r] # None /\ ext[r][1].cookie_token # <<>> /\ ext'[r] # None) =>
                ext'[r][1].cookie_token = ext[r][1].cookie_token]_vars

C11_Witness ==
    \E r \in Requests :
        /\ pc[r] = "handling" /\ AccCount(r) = 3 /\ resolutions[r] = 1
        /\ PresentsMalformed(r)
        /\ ext[r][1].cookie_token = <<2>>

\* C12: in every per-request state, request_token is present only if
\* cookie_token is present, and it is the token derived from that cookie_token.
C12_TokenFromStoredSecret ==
    \A r \in Requests :
        (ext[r] # None /\ ext[r][1].request_token # <<>>) =>
            /\ ext[r][1].cookie_token # <<>>
            /\ ext[r][1].request_token[1].secret = ext[r][1].cookie_token[1]
            /\ ext[r][1].request_token[1].pad \in Pads
            /\ returned[r] # <<>>
            /\ returned[r][Len(returned[r])] = ext[r][1].request_token[1]

C12_Witness ==
    \E r \in Requests :
        /\ ext[r] # None /\ ext[r][1].request_token = <<[secret |-> 2, pad |-> "q"]>>
        /\ PresentsNone(r)

\* C13: write_cookie is true only if the stored cookie_token was minted in
\* this request (never when the presented cookie parsed), and once true it is
\* never reset, so it changes from false to true at most once.
C13_WriteCookieOnlyWhenMinted ==
    /\ [](\A r \in Requests :
            (ext[r] # None /\ ext[r][1].write_cookie) =>
                /\ Len(minted[r]) = 1
                /\ ext[r][1].cookie_token = <<minted[r][1]>>
                /\ ~PresentsValid(r))
    /\ [][\A r \in Requests :
            (ext[r] # None /\ ext[r][1].write_cookie /\ ext'[r] # None) =>
                ext'[r][1].write_cookie]_vars

C13_Witness ==
    /\ \E r \in Requests :
        /\ ext[r] # None /\ ext[r][1].write_cookie /\ AccCount(r) >= 2
    /\ \E r \in Requests :
        /\ ext[r] # None /\ ~ext[r][1].write_cookie /\ AccCount(r) >= 2
        /\ PresentsValid(r)

\* C14: on success the post-hook leaves status, body and the headers already
\* on the response as they are; it appends at most one header, a Set-Cookie,
\* and with write_cookie false the response is returned as the wrapped stage
\* produced it.
C14_PostHookFrame ==
    \A r \in Requests :
        pc[r] = "done_ok" =>
            LET given == inner[r][1][2]
                sent == outcome[r][1][2]
            IN /\ sent.status = given.status
               /\ sent.body = given.body
               /\ Len(sent.headers) \in {Len(given.headers), Len(given.headers) + 1}
               /\ \A i \in 1..Len(given.headers) : sent.headers[i] = given.headers[i]
               /\ \A i \in (Len(given.headers) + 1)..Len(sent.headers) :
                      sent.headers[i].name = SET_COOKIE
               /\ ~ext[r][1].write_cookie => sent = given
               /\ ext[r][1].write_cookie => Len(sent.headers) = Len(given.headers) + 1

C14_Witness ==
    /\ \E r \in Requests :
        /\ pc[r] = "done_ok" /\ ext[r][1].write_cookie
        /\ inner[r][1][2].headers # <<>> /\ inner[r][1][2].status = "404"
    /\ \E r \in Requests :
        /\ pc[r] = "done_ok" /\ ~ext[r][1].write_cookie /\ AccCount(r) > 0
        /\ inner[r][1][2].headers # <<>>

\* C15: a request cancelled after the pre-hook and before the wrapped stage
\* completes never has its post-hook run and never gets a Set-Cookie, also
\* when xsrf_token has minted a secret and set write_cookie.
C15_CancelledNoCookie ==
    /\ [](\A r \in Requests :
            pc[r] = "cancelled" =>
                /\ outcome[r] = <<>>
                /\ inner[r] = <<>>
                /\ \A i \in 1..Len(log[r]) : log[r][i] # "post")
    /\ [][\A r \in Requests :
            pc[r] = "cancelled" =>
                /\ pc'[r] = "cancelled"
                /\ outcome'[r] = <<>>
                /\ log'[r] = log[r]]_vars

C15_Witness ==
    \E r \in Requests :
        /\ pc[r] = "cancelled" /\ minted[r] # <<>> /\ AccCount(r) >= 1
        /\ \E q \in Requests : pc[q] = "done_ok" /\ Appended(q) # <<>>

\* C16: wherever the post-hook can read, the ReqExt is attached and
\* write_cookie implies cookie_token is present; cookie_token is present when
\* xsrf_token derives the request token; none of these unwraps panics.
C16_UnwrapsSafe ==
    \A r \in Requests :
        /\ pc[r] \in {"handling", "done_ok", "done_err"} => ext[r] # None
        /\ (ext[r] # None /\ ext[r][1].write_cookie) => ext[r][1].cookie_token # <<>>
        /\ (ext[r] # None /\ AccCount(r) > 0 /\ pc[r] # "panicked") =>
               ext[r][1].cookie_token # <<>>
        /\ (outcome[r] # None /\ outcome[r][1][1] = "Panic") =>
               outcome[r][1][2] \notin {"unwrap ReqExt", "unwrap cookie_token"}

C16_Witness ==
    \E r \in Requests :
        /\ pc[r] = "done_ok" /\ ext[r][1].write_cookie /\ Appended(r) # <<>>
        /\ derivations[r] = 1

\* Borrows outstanding just before event i of a trace
Outstanding(trace, i, kind) ==
    Cardinality({k \in 1..(i - 1) : trace[k] = kind \o "+"})
        - Cardinality({k \in 1..(i - 1) : trace[k] = kind \o "-"})

\* C17: in every step of the pre-hook, xsrf_token and the post-hook, a mutable
\* borrow of the extensions is taken only when no borrow is outstanding, a
\* shared one only when no mutable one is, and every borrow is released by the
\* end of the step; no step panics on a borrow.
C17_NoBorrowConflict ==
    \A r \in Requests :
        LET t == borrows[r] IN
        /\ \A i \in 1..Len(t) :
               /\ t[i] = "m+" => Outstanding(t, i, "s") = 0 /\ Outstanding(t, i, "m") = 0
               /\ t[i] = "s+" => Outstanding(t, i, "m") = 0
               /\ t[i] = "s-" => Outstanding(t, i, "s") > 0
               /\ t[i] = "m-" => Outstanding(t, i, "m") > 0
        /\ Outstanding(t, Len(t) + 1, "s") = 0
        /\ Outstanding(t, Len(t) + 1, "m") = 0
        /\ (outcome[r] # None /\ outcome[r][1][1] = "Panic") =>
               outcome[r][1][2] # "already borrowed"
        /\ pc[r] \in {"handling", "done_ok"} => t # <<>>

C17_Witness ==
    /\ \E r \in Requests :
        /\ pc[r] = "handling" /\ AccCount(r) = 1
        /\ borrows[r] = <<"s+", "s-", "s+", "s-", "s+", "s-", "m+", "m-",
                          "s+", "s-", "m+", "m-", "m+", "m-">>
    /\ \E r \in Requests : pc[r] = "done_ok" /\ borrows[r] = <<"s+", "s-">>

\* C18: whenever no xsrf_token call is in progress, cookie_token is present
\* exactly when request_token is: a completed call has set both.
C18_SecretIffToken ==
    \A r \in Requests :
        ext[r] # None =>
            /\ ext[r][1].cookie_token # <<>> <=> ext[r][1].request_token # <<>>
            /\ ext[r][1].cookie_token # <<>> <=> returned[r] # <<>>

C18_Witness ==
    /\ \E r \in Requests :
        pc[r] = "handling" /\ ext[r][1].cookie_token # <<>> /\ AccCount(r) = 1
    /\ \E r \in Requests :
        pc[r] = "done_ok" /\ ext[r][1].cookie_token = <<>> /\ AccCount(r) = 0

\* C19: a request that completes successfully gets at most one Set-Cookie
\* header for the configured name from the interceptor, the same for one
\* xsrf_token call as for many.
C19_AtMostOneSetCookie ==
    \A r \in Requests :
        pc[r] = "done_ok" =>
            LET sent == outcome[r][1][2].headers
                mine == {i \in 1..Len(sent) : IsSetCookieFor(sent[i], config.cookie_name)}
            IN /\ Cardinality(mine) <= 1
               /\ Len(Appended(r)) <= 1
               /\ Cardinality(mine) = 1 <=> (AccCount(r) >= 1 /\ ~PresentsValid(r))

C19_Witness ==
    \E r, q \in Requests :
        /\ pc[r] = "done_ok" /\ AccCount(r) = 3 /\ Len(Appended(r)) = 1
        /\ pc[q] = "done_ok" /\ AccCount(q) = 1 /\ Len(Appended(q)) = 1

====
